---------------------------- MODULE Spec2Model ----------------------------
(***************************************************************************)
(* A model of the synchronized chart group of                              *)
(* apps/desktop/src/components/charts/ChartList.tsx: the ChartList         *)
(* provider (shared brush viewport and shared dragging flag) and its       *)
(* ChartItem children (display buffer, pending buffer, settle timer).      *)
(*                                                                         *)
(* One step of the model is one browser task together with the React      *)
(* commit it causes: an event handler, timer callback or new prop, the     *)
(* re-render, and the effects whose dependencies changed.                  *)
(*                                                                         *)
(* Percentages are exact rationals: the integer p stands for p / PctDen    *)
(* percent, so PctMax stands for 100.  The code computes them in IEEE      *)
(* doubles; the model does not represent rounding error of the doubles.    *)
(*                                                                         *)
(* The module also models the update check of                              *)
(* apps/desktop/src/hooks/useUpdateCheck.ts: the effect that starts a      *)
(* fetch of the latest release unless one was stored less than six hours   *)
(* ago, its cancellation by the effect's cleanup, and the completion of    *)
(* the fetch.                                                              *)
(***************************************************************************)
EXTENDS Integers, Sequences, FiniteSets, TLC

\* Longest series the data feed delivers.
MaxLen == 2

\* The charts of the group (the children of one <ChartList>).
Charts == {"A", "B"}

\* pendingDataRef.current is null, or holds the series d.
Null == <<>>
Some(d) == <<d>>

\* dragTimerRef.current is null (no timeout handle is 0).
NoTimer == 0

\* CHECK_INTERVAL_MS of useUpdateCheck, in hours.
CheckIntervalHours == 6

\* Most fetches the update check starts, and most steps its clock makes.
MaxRuns == 3
MaxTicks == 3

\* The effect of useUpdateCheck returned no cleanup (runs count from 1).
NoRun == 0

VARIABLES
    committed,       \* the first commit's effects have run
    brush,           \* ChartList state: [start, end], percentages
    dragging,        \* ChartList state: the shared flag
    mounted,         \* per chart: the ChartItem is mounted
    data,            \* per chart: the data prop (latest delivery)
    displayData,     \* per chart: ChartItem state
    pendingDataRef,  \* per chart: pendingDataRef.current
    draggingRef,     \* per chart: draggingRef.current
    dragTimerRef,    \* per chart: dragTimerRef.current (a handle or Null)
    timers,          \* the live timeouts, oldest first: [id, chart]
    calc,            \* the last evaluation of a pure function (SpecCalc only)
    upd              \* useUpdateCheck: state, storage, clock and fetches

vars == <<committed, brush, dragging, mounted, data, displayData,
          pendingDataRef, draggingRef, dragTimerRef, timers, calc, upd>>

chartVars == <<committed, brush, dragging, mounted, data, displayData,
               pendingDataRef, draggingRef, dragTimerRef, timers>>

---------------------------------------------------------------------------
(* Numbers *)

Max(a, b) == IF a >= b THEN a ELSE b
Min(a, b) == IF a <= b THEN a ELSE b

RECURSIVE Fact(_)
Fact(n) == IF n <= 1 THEN 1 ELSE n * Fact(n - 1)

\* Units per percent: every idx / maxIndex * 100 with maxIndex <= MaxLen + 1
\* is an integer number of units.
PctDen == Fact(MaxLen + 1)

\* 100 percent.
PctMax == 100 * PctDen

\* Math.round(n / d) for d > 0: the nearest integer, halves towards +infinity.
MathRound(n, d) == (2 * n + d) \div (2 * d)

---------------------------------------------------------------------------
(* The data feed *)

\* The i-th sample of the feed's series (the value of its one line).
Sample(i) == <<10, 60, 30>>[((i - 1) % 3) + 1]

Prefix(n) == [i \in 1..n |-> Sample(i)]

\* The series a delivery may carry: every length up to MaxLen, and a second
\* series of length 2 with other values.
Feed == {Prefix(n) : n \in 0..MaxLen} \cup {<<60, 10>>}

\* Indices a drag event may report: below 0 and beyond the longest series.
DragIdx == (0 - 1)..MaxLen

\* Drag events that report both indices, and those the renderer sends.
AnyDrags == [startIndex : DragIdx, endIndex : DragIdx]

OrderedDrags == {n \in AnyDrags : n.startIndex <= n.endIndex}

\* Events that lack an index.
PartialDrags == {[startIndex |-> 0], [endIndex |-> 0]}

---------------------------------------------------------------------------
(* Pure functions of ChartItem *)

\* toIndex of brushIndexRange, for maxIndex > 0.
toIndex(pct, maxIndex) ==
    Max(0, Min(maxIndex, MathRound(pct * maxIndex, PctMax)))

\* brushIndexRange with maxIndex taken as the length (off by one).
brushIndexRangeByLength(b, len) ==
    LET maxIndex == Max(len, 0)
    IN  IF maxIndex <= 0
        THEN [startIndex |-> 0, endIndex |-> 0]
        ELSE [startIndex |-> toIndex(b.start, maxIndex),
              endIndex   |-> toIndex(b.end, maxIndex)]

brushIndexRange(b, len) ==
    LET maxIndex == Max(len - 1, 0)
    IN  IF maxIndex <= 0
        THEN [startIndex |-> 0, endIndex |-> 0]
        ELSE [startIndex |-> toIndex(b.start, maxIndex),
              endIndex   |-> toIndex(b.end, maxIndex)]

\* visibleRange whose end is not raised to start.
visibleRangeUnordered(r, len) ==
    [start |-> Max(0, Min(len - 1, r.startIndex)),
     end   |-> Max(0, Min(len - 1, r.endIndex))]

\* The bounds visibleData slices with; for an empty series the whole (empty)
\* series is returned and no bounds are computed.
visibleRange(r, len) ==
    LET start == Max(0, Min(len - 1, r.startIndex))
        end   == Max(start, Min(len - 1, r.endIndex))
    IN  [start |-> start, end |-> end]

\* A visibleData whose slice leaves out the sample at its end bound.
visibleDataExclusive(dd, r) ==
    IF Len(dd) = 0 THEN dd
    ELSE LET v == visibleRange(r, Len(dd))
         IN  SubSeq(dd, v.start + 1, v.end)

visibleData(dd, r) ==
    IF Len(dd) = 0 THEN dd
    ELSE LET v == visibleRange(r, Len(dd))
         IN  SubSeq(dd, v.start + 1, v.end + 1)

\* The value a sample holds under a line's dataKey: a finite number v, or
\* anything the statistics filter rejects (NaN, an infinity, a string, null,
\* a missing key).
Num(v) == [finite |-> TRUE, v |-> v]

NotFinite == [finite |-> FALSE]

\* typeof v === "number" && Number.isFinite(v)
isFiniteNumber(item) == item.finite

RECURSIVE MathMax(_)
MathMax(values) ==
    IF Len(values) = 1 THEN values[1].v
    ELSE Max(values[1].v, MathMax(Tail(values)))

RECURSIVE MathMin(_)
MathMin(values) ==
    IF Len(values) = 1 THEN values[1].v
    ELSE Min(values[1].v, MathMin(Tail(values)))

\* values.reduce((a, b) => a + b, 0)
RECURSIVE sum(_)
sum(values) ==
    IF Len(values) = 0 THEN 0 ELSE values[1].v + sum(Tail(values))

\* A stats that averages over every visible sample instead of the finite
\* numeric ones.
statsOverAll(visible) ==
    LET values == SelectSeq(visible, isFiniteNumber)
    IN  IF Len(values) = 0
        THEN [max |-> Null, min |-> Null, avg |-> Null]
        ELSE [max |-> Some(MathMax(values)),
              min |-> Some(MathMin(values)),
              avg |-> Some([sum |-> sum(values), n |-> Len(visible)])]

\* The statistics of one line over the visible samples.  avg is the exact
\* quotient sum / n, kept as the pair of its numerator and denominator.
stats(visible) ==
    LET values == SelectSeq(visible, isFiniteNumber)
    IN  IF Len(values) = 0
        THEN [max |-> Null, min |-> Null, avg |-> Null]
        ELSE [max |-> Some(MathMax(values)),
              min |-> Some(MathMin(values)),
              avg |-> Some([sum |-> sum(values), n |-> Len(values)])]

\* toPct without its clamp to [0, 100].
toPctUnclamped(idx, len) ==
    LET maxIndex == Max(len - 1, 1)
    IN  (idx * PctMax) \div maxIndex

\* A toPct that maps every index of a series of at most one sample to 0.
toPctZeroForSingle(idx, len) ==
    IF len <= 1
    THEN 0
    ELSE Max(0, Min(PctMax, (idx * PctMax) \div (len - 1)))

\* A toPct that divides by the length of the series instead of its last
\* index.
toPctByLength(idx, len) ==
    LET maxIndex == Max(len, 1)
    IN  Max(0, Min(PctMax, (idx * PctMax) \div maxIndex))

\* A toPct that yields the fraction idx / maxIndex instead of a percentage.
toPctFraction(idx, len) ==
    LET maxIndex == Max(len - 1, 1)
    IN  Max(0, Min(PctMax, (idx * PctDen) \div maxIndex))

\* toPct of handleBrushChange.
toPct(idx, len) ==
    LET maxIndex == Max(len - 1, 1)
    IN  Max(0, Min(PctMax, (idx * PctMax) \div maxIndex))

\* The value the clamp effect computes from the brush it rendered with.
ClampBrush(b) ==
    LET pctStart == Max(0, Min(b.start, PctMax))
        pctEnd   == Max(pctStart, Min(b.end, PctMax))
    IN  [start |-> pctStart, end |-> pctEnd]

---------------------------------------------------------------------------
(* Effects *)

\* One pass of the clamp effects after a commit that took the brush from
\* bPrev to bCur and the display buffers from ddPrev to ddCur.  A chart's
\* effect runs when one of its dependencies changed; it returns early while
\* the chart drags or its series has at most one sample.
\* A clamp effect that does not return early for a series of at most one
\* sample.
ClampActsAnyLength(k, b, dd, dref) ==
    /\ ~dref[k]
    /\ ClampBrush(b) # b

ClampActs(k, b, dd, dref) ==
    /\ ~dref[k]
    /\ Max(Len(dd[k]) - 1, 0) > 0
    /\ ClampBrush(b) # b

\* The brush after the clamp effects of the charts in `runs`, all rendered
\* with brush b: each one that acts calls setBrush with the same value.
ClampPass(runs, b, dd, dref) ==
    IF \E k \in runs : ClampActs(k, b, dd, dref) THEN ClampBrush(b) ELSE b

\* The charts whose clamp effect runs after a commit that took the brush
\* from bPrev to bCur and the display buffers from ddPrev to ddCur: the
\* mounted ones with a changed dependency.
ClampRuns(bPrev, bCur, ddPrev, ddCur, mnt) ==
    {k \in Charts : /\ mnt[k]
                    /\ \/ bCur # bPrev
                       \/ Len(ddCur[k]) # Len(ddPrev[k])}

\* The brush once the effects have settled: a pass, and the pass that the
\* first one's setBrush causes.
ClampEffects(bPrev, bCur, ddPrev, ddCur, dref, mnt) ==
    LET b1 == ClampPass(ClampRuns(bPrev, bCur, ddPrev, ddCur, mnt),
                        bCur, ddCur, dref)
    IN  ClampPass(ClampRuns(bCur, b1, ddCur, ddCur, mnt), b1, ddCur, dref)

---------------------------------------------------------------------------
(* Timers *)

\* Timeout handles.  The browser never hands out a handle twice; the model
\* picks the least handle that is neither live nor held in a ref.
TimerIds == 1..(2 * Cardinality(Charts))

\* The live timeouts whose callback closes over chart c.
LiveTimers(c) == {timers[i].id : i \in {j \in DOMAIN timers : timers[j].chart = c}}

UsedTimerIds ==
    {timers[i].id : i \in DOMAIN timers}
        \cup ({dragTimerRef[k] : k \in Charts} \ {NoTimer})

FreshTimerIds == TimerIds \ UsedTimerIds

NewTimer == CHOOSE h \in FreshTimerIds : \A g \in FreshTimerIds : h <= g

\* The queue q without the timeouts of handle h.
RECURSIVE Without(_, _)
Without(q, h) ==
    IF q = <<>> THEN <<>>
    ELSE IF Head(q).id = h THEN Without(Tail(q), h)
         ELSE <<Head(q)>> \o Without(Tail(q), h)

\* handleBrushChange without its clearTimeout.
KeepDragTimer(live, ref) == live

\* A dragTimerRef shared by the charts of the group: the drag clears the
\* timeout set last, whichever chart set it.
ClearSharedTimer(live, ref) ==
    IF live # <<>> THEN SubSeq(live, 1, Len(live) - 1) ELSE live

\* clearTimeout(dragTimerRef.current) when the ref is set.
ClearDragTimer(live, ref) == IF ref # NoTimer THEN Without(live, ref) ELSE live

---------------------------------------------------------------------------
(* useUpdateCheck *)

\* State after the first render of the hook's component, before its effect
\* has run.  now is Date.now() and lastUpdateCheck the number read from
\* localStorage (0 when the key is absent), both in hours; runs are the
\* calls of run() so far, each with its canceled variable and whether its
\* fetch has finished; cleanup is the run whose cleanup the last effect
\* returned.  info records which run wrote it and whether that run was
\* cancelled when it did; the release it describes is left out.
UpdateCheckInit ==
    [now             |-> CheckIntervalHours,
     lastUpdateCheck |-> 0,
     checking        |-> FALSE,
     info            |-> [src |-> "initial", by |-> NoRun,
                          canceled |-> FALSE],
     runs            |-> <<>>,
     cleanup         |-> NoRun]

\* The cleanup of the previous effect: canceled = true in its closure.
Cleanup(runs, id) ==
    IF id = NoRun THEN runs ELSE [runs EXCEPT ![id].canceled = TRUE]

\* Date.now() - last < CHECK_INTERVAL_MS
Throttled(now, last) == now - last < CheckIntervalHours

\* The effect of useUpdateCheck runs: on mount, and after currentVersion
\* changed (then the previous effect's cleanup runs first).  mock tells
\* whether the development build finds a mock version in localStorage.
EffectRun(mock) ==
    /\ LET cleaned == Cleanup(upd.runs, upd.cleanup)
       IN  IF mock
           THEN upd' = [upd EXCEPT
                            !.runs = cleaned,
                            !.cleanup = NoRun,
                            !.info = [src |-> "mock", by |-> NoRun,
                                      canceled |-> FALSE],
                            !.checking = FALSE]
           ELSE IF Throttled(upd.now, upd.lastUpdateCheck)
           THEN upd' = [upd EXCEPT !.runs = cleaned, !.cleanup = NoRun]
           ELSE /\ Len(upd.runs) < MaxRuns
                /\ upd' = [upd EXCEPT
                               !.runs = Append(cleaned,
                                               [canceled |-> FALSE,
                                                done |-> FALSE]),
                               !.cleanup = Len(upd.runs) + 1,
                               !.checking = TRUE]
    /\ UNCHANGED <<chartVars, calc>>

\* The fetch of run id finishes and run() continues to its end: with a
\* release (ok), or with an exception (the request failed, the status was
\* not ok, or the body was not JSON).
FetchDone(id, ok) ==
    /\ id \in DOMAIN upd.runs
    /\ ~upd.runs[id].done
    /\ LET canceled == upd.runs[id].canceled
       IN  upd' = [upd EXCEPT
                       !.runs[id].done = TRUE,
                       !.lastUpdateCheck = IF ok THEN upd.now ELSE @,
                       !.info = IF canceled THEN @
                                ELSE [src |-> IF ok THEN "release"
                                              ELSE "error",
                                      by |-> id, canceled |-> canceled],
                       !.checking = IF canceled THEN @ ELSE FALSE]
    /\ UNCHANGED <<chartVars, calc>>

\* Time passes: half a check interval.
Tick ==
    /\ upd.now < CheckIntervalHours + MaxTicks * (CheckIntervalHours \div 2)
    /\ upd' = [upd EXCEPT !.now = @ + CheckIntervalHours \div 2]
    /\ UNCHANGED <<chartVars, calc>>

---------------------------------------------------------------------------
(* Initial states *)

\* State after the first render of a group whose caller supplied a
\* viewport of `brushes` and, to each chart, a series of `series`
\* (useState initialisers, refs).
InitWith(brushes, series) ==
    /\ committed = FALSE
    /\ brush \in brushes
    /\ dragging = FALSE
    /\ mounted = [c \in Charts |-> TRUE]
    /\ data \in [Charts -> series]
    /\ displayData = data
    /\ pendingDataRef = [c \in Charts |-> Null]
    /\ draggingRef = [c \in Charts |-> FALSE]
    /\ dragTimerRef = [c \in Charts |-> NoTimer]
    /\ timers = <<>>
    /\ calc = [fn |-> "none"]
    /\ upd = UpdateCheckInit

DefaultBrush == [start |-> 0, end |-> PctMax]

ValidBrush(b) == 0 <= b.start /\ b.start <= b.end /\ b.end <= PctMax

\* Viewports a caller may supply: halves of the range, and out of it.
BrushGrid == {(k * PctMax) \div 2 : k \in (0 - 1)..3}

AnyBrushes == [start : BrushGrid, end : BrushGrid]

ValidBrushes == {b \in AnyBrushes : ValidBrush(b)}

---------------------------------------------------------------------------
(* Actions *)

\* The effects of the first commit: every chart's data effect (which sets
\* displayData to the data it already holds) and clamp effect.
MountEffects ==
    /\ ~committed
    /\ committed' = TRUE
    /\ brush' = LET b1 == ClampPass({k \in Charts : mounted[k]}, brush,
                                    displayData, draggingRef)
                IN  ClampPass(ClampRuns(brush, b1, displayData, displayData,
                                        mounted),
                              b1, displayData, draggingRef)
    /\ UNCHANGED <<dragging, mounted, data, displayData, pendingDataRef,
                   draggingRef, dragTimerRef, timers, calc, upd>>

\* A data effect that never defers.
DataEffectNeverDefers(c) == FALSE

\* A data effect that tests the group's shared flag.
DataEffectDefersForGroup(c) == dragging

\* The data effect's test: the chart's own draggingRef.current.
DataEffectDefers(c) == draggingRef[c]

\* The data effect of chart c for a new data prop d.
DataArrive(c, d) ==
    /\ committed
    /\ mounted[c]
    /\ data' = [data EXCEPT ![c] = d]
    /\ IF DataEffectDefers(c)
       THEN /\ pendingDataRef' = [pendingDataRef EXCEPT ![c] = Some(d)]
            /\ displayData' = displayData
       ELSE /\ displayData' = [displayData EXCEPT ![c] = d]
            /\ pendingDataRef' = pendingDataRef
    /\ brush' = ClampEffects(brush, brush, displayData, displayData',
                             draggingRef, mounted)
    /\ UNCHANGED <<committed, dragging, mounted, draggingRef, dragTimerRef,
                   timers, calc, upd>>

\* handleBrushChange of chart c with the event next, a record that may lack
\* startIndex or endIndex (undefined).
handleBrushChange(c, next) ==
    /\ committed
    /\ mounted[c]
    /\ IF "startIndex" \notin DOMAIN next \/ "endIndex" \notin DOMAIN next
       THEN UNCHANGED vars
       ELSE /\ draggingRef' = [draggingRef EXCEPT ![c] = TRUE]
            /\ dragging' = TRUE
            /\ brush' = LET len == Len(displayData[c])
                            pushed == [start |-> toPct(next.startIndex, len),
                                       end   |-> toPct(next.endIndex, len)]
                        IN  ClampEffects(brush, pushed, displayData,
                                         displayData, draggingRef', mounted)
            /\ FreshTimerIds # {}
            /\ dragTimerRef' = [dragTimerRef EXCEPT ![c] = NewTimer]
            /\ timers' = Append(ClearDragTimer(timers, dragTimerRef[c]),
                                [id |-> NewTimer, chart |-> c])
            /\ UNCHANGED <<committed, mounted, data, displayData,
                           pendingDataRef, calc, upd>>

\* A settle callback that drops the pending buffer without applying it.
SettleDisplayKeeps(dd, pend) == dd

\* A settle callback that tests the length of the pending series instead of
\* its presence: an empty pending series is not applied.
SettleDisplayNonEmpty(dd, pend) ==
    IF pend # Null /\ Len(pend[1]) > 0 THEN pend[1] ELSE dd

\* What the settle callback makes of the display buffer dd, given the
\* pending buffer pend.
SettleDisplay(dd, pend) == IF pend # Null THEN pend[1] ELSE dd

\* The callback of timeout h of chart c runs.  All timeouts have the same
\* delay, so the one set first is due first.  A state update of an
\* unmounted component is dropped by React; the refs are still written.
TimerFire(c, h) ==
    /\ committed
    /\ timers # <<>>
    /\ Head(timers) = [id |-> h, chart |-> c]
    /\ timers' = Tail(timers)
    /\ draggingRef' = [draggingRef EXCEPT ![c] = FALSE]
    /\ dragging' = FALSE
    /\ displayData' = IF mounted[c]
                      THEN [displayData EXCEPT
                                ![c] = SettleDisplay(displayData[c],
                                                     pendingDataRef[c])]
                      ELSE displayData
    /\ pendingDataRef' = [pendingDataRef EXCEPT ![c] = Null]
    /\ brush' = ClampEffects(brush, brush, displayData, displayData',
                             draggingRef', mounted)
    /\ UNCHANGED <<committed, mounted, data, dragTimerRef, calc, upd>>

\* Chart c is removed from the group.  ChartItem registers no cleanup, so
\* nothing but React's own bookkeeping changes: the component's props and
\* state are gone (an empty series stands for them), its refs live on in
\* the timer callback's closure.
Unmount(c) ==
    /\ committed
    /\ mounted[c]
    /\ mounted' = [mounted EXCEPT ![c] = FALSE]
    /\ data' = [data EXCEPT ![c] = <<>>]
    /\ displayData' = [displayData EXCEPT ![c] = <<>>]
    /\ UNCHANGED <<committed, brush, dragging, pendingDataRef, draggingRef,
                   dragTimerRef, timers, calc, upd>>

---------------------------------------------------------------------------
(* Specifications *)

\* A group created with a valid viewport, whose renderer reports ordered
\* index pairs.
Init == InitWith(ValidBrushes, Feed)

Next ==
    \/ MountEffects
    \/ \E c \in Charts, d \in Feed : DataArrive(c, d)
    \/ \E c \in Charts, next \in OrderedDrags \cup PartialDrags :
           handleBrushChange(c, next)
    \/ \E c \in Charts, h \in TimerIds : TimerFire(c, h)
    \/ \E c \in Charts : Unmount(c)

Spec == Init /\ [][Next]_vars

\* The browser runs the callback of a timeout that is due: the oldest live
\* timeout does not stay in the queue for ever.
TimerRuns == \E c \in Charts, h \in TimerIds : TimerFire(c, h)

SpecFair == Init /\ [][Next]_vars /\ WF_vars(TimerRuns)

\* A group created with any viewport of the grid (out of range and inverted
\* ones too), whose drag events report any pair of indices.
InitAny == InitWith(AnyBrushes, Feed)

NextAny ==
    \/ MountEffects
    \/ \E c \in Charts, d \in Feed : DataArrive(c, d)
    \/ \E c \in Charts, next \in AnyDrags \cup PartialDrags :
           handleBrushChange(c, next)
    \/ \E c \in Charts, h \in TimerIds : TimerFire(c, h)
    \/ \E c \in Charts : Unmount(c)

SpecAny == InitAny /\ [][NextAny]_vars

\* The pure functions, each evaluated once on an input of a grid; the group
\* is left as it was created.
\* The percentages evaluated: for every maxIndex m the points where an
\* index is hit exactly and where the rounding turns over, from below 0 to
\* above 100, each with its two neighbours.
CalcPcts ==
    LET pts == {(j * PctMax) \div (2 * m) :
                    j \in (0 - 1)..(2 * MaxLen + 3), m \in 1..(MaxLen + 1)}
    IN  {p + e : p \in pts, e \in {0 - 1, 0, 1}}

CalcBrushes == [start : CalcPcts, end : CalcPcts]

CalcLens == 0..(MaxLen + 2)

\* A render of a chart with viewport b and a series of length len.
CalcWindow(b, len) ==
    /\ calc' = [fn |-> "brushIndexRange", brush |-> b, len |-> len,
                out |-> brushIndexRange(b, len),
                visible |-> visibleRange(brushIndexRange(b, len), len)]
    /\ UNCHANGED <<chartVars, upd>>

\* A drag that reports index idx on a chart with a series of length len,
\* followed by the render that maps the pushed percentage back to an index.
CalcRoundTrip(idx, len) ==
    /\ calc' = [fn |-> "roundTrip", idx |-> idx, len |-> len,
                pct |-> toPct(idx, len),
                out |-> brushIndexRange([start |-> toPct(idx, len),
                                         end |-> toPct(idx, len)], len)]
    /\ UNCHANGED <<chartVars, upd>>

\* The values one line can hold in a sample, and the series of them.
StatCells == {Num(Sample(i)) : i \in 1..3} \cup {NotFinite}

StatSeries == UNION {[1..n -> StatCells] : n \in 0..(MaxLen + 1)}

StatBrushes == [start : BrushGrid, end : BrushGrid]

\* A render of a chart with viewport b whose displayData is series: the
\* window, the visible samples and the statistics of one line.
CalcStats(b, series) ==
    /\ calc' = [fn |-> "stats", brush |-> b, series |-> series,
                out |-> brushIndexRange(b, Len(series)),
                visible |-> visibleData(series,
                                brushIndexRange(b, Len(series))),
                stats |-> stats(visibleData(series,
                                brushIndexRange(b, Len(series))))]
    /\ UNCHANGED <<chartVars, upd>>

InitCalc == InitWith({DefaultBrush}, {Prefix(MaxLen)})

CalcFresh == calc.fn = "none"

NextCalc ==
    \/ CalcFresh /\ \E b \in CalcBrushes, len \in CalcLens : CalcWindow(b, len)
    \/ CalcFresh /\ \E len \in CalcLens, idx \in 0..(MaxLen + 1) :
                        idx <= len - 1 /\ CalcRoundTrip(idx, len)
    \/ CalcFresh /\ \E b \in StatBrushes, series \in StatSeries :
                        CalcStats(b, series)

SpecCalc == InitCalc /\ [][NextCalc]_vars

\* The update check alone, beside a chart group that does nothing.
NextUpdate ==
    \/ \E mock \in BOOLEAN : EffectRun(mock)
    \/ \E id \in 1..MaxRuns, ok \in BOOLEAN : FetchDone(id, ok)
    \/ Tick

SpecUpdate == InitCalc /\ [][NextUpdate]_vars

---------------------------------------------------------------------------
(* Properties *)

\* A chart is Interacting from its drag event until its settle callback.
Interacting(c) == draggingRef[c]

\* The window chart c hands to its Brush, and the bounds it slices with.
Window(c) == brushIndexRange(brush, Len(displayData[c]))

Slice(c) == visibleRange(Window(c), Len(displayData[c]))

\* C1  Freeze invariant.  A mounted chart's pending buffer, when set, holds
\* the latest delivery and the chart is Interacting; every step that leaves
\* a chart Interacting (the drag that starts the burst, later drags, data
\* deliveries to any chart, a sibling's settle) leaves its displayData as it
\* was; and a delivery to an Interacting chart puts that delivery in its
\* pending buffer, whatever was there.
C1_FreezeInvariant ==
    /\ [](\A c \in Charts :
             mounted[c] /\ pendingDataRef[c] # Null
                 => Interacting(c) /\ pendingDataRef[c] = Some(data[c]))
    /\ [][\A c \in Charts :
             mounted[c] /\ mounted'[c] /\ draggingRef'[c]
                 => displayData'[c] = displayData[c]]_vars
    /\ [][\A c \in Charts, d \in Feed :
             DataArrive(c, d) /\ Interacting(c)
                 => pendingDataRef'[c] = Some(d)]_vars

\* An Interacting chart holds a delivery of another length than the series
\* it still displays.
C1_Witness ==
    \E c \in Charts :
        /\ mounted[c] /\ Interacting(c)
        /\ pendingDataRef[c] = Some(data[c])
        /\ Len(data[c]) # Len(displayData[c])

\* C2  Settle application.  When the settle callback of a mounted chart
\* runs, displayData becomes the latest delivery if one was buffered and
\* stays as it was otherwise, the pending buffer is empty after the same
\* step, the chart is Idle, and no timer of the chart is left to apply
\* anything a second time.
C2_SettleApplication ==
    [][\A c \in Charts, h \in TimerIds :
          TimerFire(c, h) /\ mounted[c]
              => /\ displayData'[c] = (IF pendingDataRef[c] # Null
                                       THEN data[c] ELSE displayData[c])
                 /\ pendingDataRef'[c] = Null
                 /\ ~draggingRef'[c]
                 /\ LiveTimers(c)' = {}]_vars

\* The settle callback of a mounted chart has run (its ref holds a handle
\* that is no longer live): the chart is Idle, displays the latest delivery
\* and has no pending buffer.
C2_Witness ==
    \E c \in Charts :
        /\ mounted[c] /\ ~Interacting(c)
        /\ dragTimerRef[c] # NoTimer /\ LiveTimers(c) = {}
        /\ pendingDataRef[c] = Null
        /\ displayData[c] = data[c]
        /\ \A k \in Charts \ {c} : dragTimerRef[k] = NoTimer

\* C3  The shared flag is true whenever a mounted chart is Interacting.
C3_InteractingFlag ==
    \A c \in Charts : mounted[c] /\ Interacting(c) => dragging

\* C4  A mounted chart's pending buffer is set only while the shared flag
\* is true, and the step that copies it into displayData empties it.
C4_PendingOnlyWhileInteracting ==
    /\ [](\A c \in Charts :
             mounted[c] /\ pendingDataRef[c] # Null => dragging)
    /\ [][\A c \in Charts :
             /\ mounted[c] /\ mounted'[c]
             /\ pendingDataRef[c] # Null
             /\ displayData'[c] # displayData[c]
             => pendingDataRef'[c] = Null]_vars

\* C5 as stated: while any mounted chart of the group is Interacting, a
\* delivery to any chart leaves every displayData as it was.
C5_GroupWideDeferral ==
    [][\A c \in Charts, d \in Feed :
          DataArrive(c, d) /\ (\E k \in Charts : mounted[k] /\ Interacting(k))
              => displayData' = displayData]_vars

\* C5 as amended: a delivery to a chart is deferred exactly when that chart
\* itself is Interacting; a chart that is Idle displays the delivery at
\* once, also while a sibling is being dragged.  No other chart's buffers
\* change.
C5_OwnChartDeferral ==
    [][\A c \in Charts, d \in Feed :
          DataArrive(c, d)
              => /\ IF Interacting(c)
                    THEN /\ displayData'[c] = displayData[c]
                         /\ pendingDataRef'[c] = Some(d)
                    ELSE /\ displayData'[c] = d
                         /\ pendingDataRef'[c] = pendingDataRef[c]
                 /\ \A k \in Charts \ {c} :
                        /\ displayData'[k] = displayData[k]
                        /\ pendingDataRef'[k] = pendingDataRef[k]]_vars

\* One chart is Interacting and holds a deferred delivery while its sibling,
\* which never dragged, is Idle and displays its latest delivery.
C5_Witness ==
    \E a \in Charts, b \in Charts :
        /\ a # b /\ mounted[a] /\ mounted[b]
        /\ Interacting(a) /\ ~Interacting(b) /\ dragging
        /\ pendingDataRef[a] # Null /\ displayData[a] # data[a]
        /\ pendingDataRef[b] = Null /\ displayData[b] = data[b]
        /\ dragTimerRef[b] = NoTimer

\* C6  The settle callback of an unmounted chart never runs.
C6_UnmountCancelsTimer ==
    [][\A c \in Charts, h \in TimerIds : TimerFire(c, h) => mounted[c]]_vars

\* C7  Every chart has at most one live timer, the one its ref holds, and
\* has one exactly while it is Interacting; the callback runs only for an
\* Interacting chart and leaves the chart without a timer, so a burst ends
\* with one callback.
C7_OneLiveTimer ==
    /\ [](\A c \in Charts :
             /\ Cardinality({i \in DOMAIN timers : timers[i].chart = c}) <= 1
             /\ LiveTimers(c) \subseteq {dragTimerRef[c]}
             /\ Interacting(c) <=> LiveTimers(c) # {})
    /\ [][\A c \in Charts, h \in TimerIds :
             TimerFire(c, h) => Interacting(c) /\ LiveTimers(c)' = {}]_vars

\* A chart that has rescheduled its timer (its sibling never dragged, so
\* the handle it holds is its second one) and has one live timer.
C7_Witness ==
    \E c \in Charts :
        /\ \A k \in Charts \ {c} : dragTimerRef[k] = NoTimer
        /\ dragTimerRef[c] = 2
        /\ LiveTimers(c) = {2}

\* C8  Viewport invariant: 0 <= start <= end <= 100.
C8_ViewportInvariant == ValidBrush(brush)

\* A chart with a single sample is the only one that dragged and the
\* viewport ends at 100: it reported an end index beyond its series.
C8_Witness ==
    \E c \in Charts :
        /\ mounted[c] /\ Interacting(c)
        /\ Len(displayData[c]) = 1
        /\ \A k \in Charts \ {c} : dragTimerRef[k] = NoTimer
        /\ brush.start = 0 /\ brush.end = PctMax

\* C9 as stated: for a valid viewport and every series length, startIndex <=
\* endIndex and both lie in [0, len - 1].
C9_IndexMonotonicity ==
    calc.fn = "brushIndexRange" /\ ValidBrush(calc.brush)
        => /\ calc.out.startIndex <= calc.out.endIndex
           /\ 0 <= calc.out.startIndex
           /\ calc.out.endIndex <= calc.len - 1

\* C9 as amended: for a valid viewport and every series length of at least
\* 1, startIndex <= endIndex and both lie in [0, len - 1]; for the empty
\* series both are 0.
C9_IndexMonotonicityNonEmpty ==
    calc.fn = "brushIndexRange" /\ ValidBrush(calc.brush)
        => IF calc.len >= 1
           THEN /\ calc.out.startIndex <= calc.out.endIndex
                /\ 0 <= calc.out.startIndex
                /\ calc.out.endIndex <= calc.len - 1
           ELSE calc.out.startIndex = 0 /\ calc.out.endIndex = 0

\* A proper window inside the longest series evaluated.
C9_Witness ==
    /\ calc.fn = "brushIndexRange" /\ ValidBrush(calc.brush)
    /\ calc.len = MaxLen + 2
    /\ 0 < calc.out.startIndex
    /\ calc.out.startIndex < calc.out.endIndex
    /\ calc.out.endIndex < calc.len - 1

\* C10 as stated: the startIndex / endIndex a mounted chart hands to its
\* Brush satisfy startIndex <= endIndex, for every viewport.
C10_WindowOrdered ==
    \A c \in Charts :
        mounted[c] => Window(c).startIndex <= Window(c).endIndex

\* C10 as amended: for every viewport the bounds visibleData slices a
\* non-empty series with satisfy 0 <= start <= end <= len - 1; the indices
\* handed to the Brush satisfy startIndex <= endIndex when the viewport has
\* start <= end.
C10_SliceOrdered ==
    \A c \in Charts :
        mounted[c] =>
            /\ Len(displayData[c]) > 0
                   => /\ 0 <= Slice(c).start
                      /\ Slice(c).start <= Slice(c).end
                      /\ Slice(c).end <= Len(displayData[c]) - 1
            /\ brush.start <= brush.end
                   => Window(c).startIndex <= Window(c).endIndex

\* After the first commit, an Interacting chart rendered with an inverted
\* viewport: its Brush indices are inverted, its slice is the one sample at
\* the start index.
C10_Witness ==
    \E c \in Charts :
        /\ committed /\ mounted[c] /\ Interacting(c)
        /\ brush.start > brush.end
        /\ Window(c).startIndex > Window(c).endIndex
        /\ Slice(c).start = Slice(c).end


\* C11 as stated: when the viewport is out of range or inverted, a data
\* change handled by a chart that is not Interacting leaves a viewport with
\* 0 <= start <= end <= 100, whatever the length of the chart's series; a
\* valid viewport is not rewritten.
C11_CorrectedOnIdleData ==
    [][\A c \in Charts, d \in Feed :
          DataArrive(c, d) /\ ~Interacting(c)
              => /\ ~ValidBrush(brush) => ValidBrush(brush')
                 /\ ValidBrush(brush) => brush' = brush]_vars

\* C11 as amended: a data change handled by a chart that is not Interacting
\* corrects the viewport (to start clamped into [0, 100] and end clamped
\* into [start, 100]) when it changes the length of the chart's displayed
\* series to a length of at least 2.  A data change that leaves the length
\* as it was, or leaves a series of at most one sample, or is handled by an
\* Interacting chart, leaves the viewport as it was, valid or not; a valid
\* viewport is never rewritten.
C11_CorrectedOnLengthChange ==
    [][\A c \in Charts, d \in Feed :
          DataArrive(c, d)
              => /\ IF /\ ~Interacting(c)
                       /\ Len(d) # Len(displayData[c])
                       /\ Len(d) >= 2
                    THEN /\ ValidBrush(brush')
                         /\ brush'.start = Max(0, Min(brush.start, PctMax))
                         /\ brush'.end =
                                Max(brush'.start, Min(brush.end, PctMax))
                    ELSE brush' = brush
                 /\ ValidBrush(brush) => brush' = brush]_vars

\* After the first commit the viewport is out of range or inverted and a
\* mounted chart with at most one sample is Idle: its next delivery of a
\* longer series is the data change that corrects the viewport.
C11_Witness ==
    \E c \in Charts :
        /\ committed /\ mounted[c] /\ ~Interacting(c)
        /\ ~ValidBrush(brush)
        /\ Len(displayData[c]) <= 1
        /\ \A k \in Charts : dragTimerRef[k] = NoTimer


\* C12: for a series of at least 2 samples and an index i in [0, len - 1],
\* mapping i to a percentage (toPct of the drag handler) and that
\* percentage back to an index (toIndex of the window computation) yields
\* an index j with |j - i| <= 1.
C12_RoundTrip ==
    calc.fn = "roundTrip" /\ calc.len >= 2
        => /\ calc.out.startIndex - calc.idx <= 1
           /\ calc.idx - calc.out.startIndex <= 1
           /\ calc.out.endIndex = calc.out.startIndex

\* An interior index of the longest series went through the round trip.
C12_Witness ==
    /\ calc.fn = "roundTrip"
    /\ calc.len = MaxLen + 2
    /\ 0 < calc.idx /\ calc.idx < calc.len - 1
    /\ 0 < calc.pct /\ calc.pct < PctMax
    /\ calc.out.startIndex = calc.idx


\* C13 as stated: a drag on a chart whose series has exactly one sample
\* pushes the viewport {0, 0}, whatever the indices it reports.  (A drag on
\* c is the only step that gives c a new timer handle; the other steps are
\* passed over without evaluating the handler.)
C13_SingleSamplePushesZero ==
    [][\A c \in Charts, next \in OrderedDrags :
          (/\ Len(displayData[c]) = 1
           /\ dragTimerRef'[c] # dragTimerRef[c]
           /\ handleBrushChange(c, next))
              => brush' = [start |-> 0, end |-> 0]]_vars

\* C13 as amended: for a series of exactly one sample the index-to-
\* percentage mapping divides by 1, so a reported index of 0 or less maps
\* to 0 and a reported index of 1 or more maps to 100; a drag on such a
\* chart pushes {0, 0} only when both reported indices are at most 0.
C13_SingleSamplePct ==
    [][\A c \in Charts, next \in OrderedDrags :
          (/\ Len(displayData[c]) = 1
           /\ dragTimerRef'[c] # dragTimerRef[c]
           /\ handleBrushChange(c, next))
              => /\ brush'.start = IF next.startIndex >= 1 THEN PctMax ELSE 0
                 /\ brush'.end = IF next.endIndex >= 1 THEN PctMax ELSE 0]_vars

\* A chart with exactly one sample was dragged, no other chart was, and the
\* viewport is {0, 100}: the drag reported a start index of at most 0 and
\* an end index of at least 1.
C13_Witness ==
    \E c \in Charts :
        /\ mounted[c] /\ Interacting(c)
        /\ Len(displayData[c]) = 1
        /\ pendingDataRef[c] = Null
        /\ \A k \in Charts \ {c} : dragTimerRef[k] = NoTimer
        /\ brush = [start |-> 0, end |-> PctMax]


\* C14 as stated: for a series of exactly one sample and any viewport, the
\* window is startIndex = endIndex = 0 and a line's max, min and avg all
\* equal the value that sample holds for the line.
C14_SingleSampleStats ==
    calc.fn = "stats" /\ Len(calc.series) = 1
        => /\ calc.out = [startIndex |-> 0, endIndex |-> 0]
           /\ calc.series[1].finite
           /\ calc.stats.max = Some(calc.series[1].v)
           /\ calc.stats.min = Some(calc.series[1].v)
           /\ calc.stats.avg # Null
           /\ calc.stats.avg[1].sum = calc.series[1].v * calc.stats.avg[1].n

\* C14 as amended: for a series of exactly one sample and any viewport, the
\* window is startIndex = endIndex = 0; a line's max, min and avg all equal
\* the value that sample holds for the line when that value is a finite
\* number, and are all the undefined sentinel when it is not.
C14_SingleSampleStatsFinite ==
    calc.fn = "stats" /\ Len(calc.series) = 1
        => /\ calc.out = [startIndex |-> 0, endIndex |-> 0]
           /\ calc.visible = calc.series
           /\ IF calc.series[1].finite
              THEN /\ calc.stats.max = Some(calc.series[1].v)
                   /\ calc.stats.min = Some(calc.series[1].v)
                   /\ calc.stats.avg # Null
                   /\ calc.stats.avg[1].sum =
                          calc.series[1].v * calc.stats.avg[1].n
              ELSE /\ calc.stats.max = Null
                   /\ calc.stats.min = Null
                   /\ calc.stats.avg = Null

\* A chart with one finite sample was rendered under a viewport that a drag
\* reporting indices 1 and 1 pushes, and its statistics are that sample.
C14_Witness ==
    /\ calc.fn = "stats" /\ Len(calc.series) = 1
    /\ calc.brush = [start |-> PctMax, end |-> PctMax]
    /\ calc.series[1].finite
    /\ calc.stats.max = Some(calc.series[1].v)


\* The indices (counted from 1) of the samples displayData[startIndex ..
\* endIndex] of a window, and those of them that hold a finite number.
WindowSamples(series, r) ==
    {i \in 1..Len(series) : r.startIndex + 1 <= i /\ i <= r.endIndex + 1}

FiniteSamples(series, r) ==
    {i \in WindowSamples(series, r) : series[i].finite}

RECURSIVE SumOver(_, _)
SumOver(series, S) ==
    IF S = {} THEN 0
    ELSE LET i == CHOOSE j \in S : TRUE
         IN  series[i].v + SumOver(series, S \ {i})

\* C15: for a viewport with start <= end, a line's statistics are computed
\* over exactly the samples displayData[startIndex..endIndex] of the window:
\* they are the undefined sentinel if and only if none of those samples
\* holds a finite number for the line, and otherwise max, min and the
\* arithmetic mean (sum over count) of the finite values only.  The series
\* 10, 60, 30 gives max 60, min 10, avg 100/3 under viewport {0, 100} and
\* max = min = avg = 60 under viewport {50, 50}.
C15_StatsOverWindow ==
    calc.fn = "stats" /\ calc.brush.start <= calc.brush.end
        => LET F == FiniteSamples(calc.series, calc.out)
               s == calc.stats
           IN  /\ calc.visible =
                      [i \in 1..Cardinality(WindowSamples(calc.series,
                                                          calc.out))
                          |-> calc.series[calc.out.startIndex + i]]
               /\ s.max = Null <=> F = {}
               /\ s.min = Null <=> F = {}
               /\ s.avg = Null <=> F = {}
               /\ F # {} =>
                      /\ \E i \in F : s.max = Some(calc.series[i].v)
                      /\ \A i \in F : calc.series[i].v <= s.max[1]
                      /\ \E i \in F : s.min = Some(calc.series[i].v)
                      /\ \A i \in F : s.min[1] <= calc.series[i].v
                      /\ s.avg[1].n = Cardinality(F)
                      /\ s.avg[1].sum = SumOver(calc.series, F)
               /\ calc.series = <<Num(10), Num(60), Num(30)>> =>
                      /\ calc.brush = [start |-> 0, end |-> PctMax] =>
                             s = [max |-> Some(60), min |-> Some(10),
                                  avg |-> Some([sum |-> 100, n |-> 3])]
                      /\ calc.brush = [start |-> PctMax \div 2,
                                       end |-> PctMax \div 2] =>
                             /\ calc.out = [startIndex |-> 1, endIndex |-> 1]
                             /\ s = [max |-> Some(60), min |-> Some(60),
                                     avg |-> Some([sum |-> 60, n |-> 1])]

\* The statistics were computed over a window of three samples of which one
\* does not hold a finite number: the mean is over the two finite ones.
C15_Witness ==
    /\ calc.fn = "stats"
    /\ calc.brush = [start |-> 0, end |-> PctMax]
    /\ calc.series = <<Num(10), NotFinite, Num(60)>>
    /\ calc.stats = [max |-> Some(60), min |-> Some(10),
                     avg |-> Some([sum |-> 70, n |-> 2])]


\* C16: every drag event that reports both indices, on an Idle chart or on
\* an Interacting one, in that same step sets the chart's local dragging
\* flag, sets the shared dragging flag, replaces the chart's timer by a
\* newly scheduled one (the last to fire, and the chart's only live one),
\* and sets the shared viewport to the percentages of the reported indices
\* relative to the last index of the chart's current displayData.  (A drag
\* on c is the only step that gives c a new timer handle; a step that does
\* not have all these effects for the indices of next is not that drag.)
C16_DragStep ==
    [][\A c \in Charts, next \in OrderedDrags :
          LET maxIndex == Max(Len(displayData[c]) - 1, 1)
              IsPct(p, idx) ==
                  IF idx < 0 THEN p = 0
                  ELSE IF idx > maxIndex THEN p = PctMax
                  ELSE p * maxIndex = idx * PctMax
              DragEffects ==
                  /\ draggingRef'[c]
                  /\ dragging'
                  /\ IsPct(brush'.start, next.startIndex)
                  /\ IsPct(brush'.end, next.endIndex)
                  /\ dragTimerRef'[c] # NoTimer
                  /\ \A i \in 1..Len(timers) :
                         timers[i].id # dragTimerRef'[c]
                  /\ timers'[Len(timers')] =
                         [id |-> dragTimerRef'[c], chart |-> c]
                  /\ \A i \in 1..(Len(timers') - 1) : timers'[i].chart # c
          IN  dragTimerRef'[c] # dragTimerRef[c] /\ ~DragEffects
                  => ~handleBrushChange(c, next)]_vars

\* A chart of two samples is Interacting after a second drag of its burst
\* (it holds the second handle it was given, and data arrived in between);
\* the viewport is the one that drag pushed, {100, 100}; no other chart was
\* dragged.
C16_Witness ==
    \E c \in Charts :
        /\ mounted[c] /\ Interacting(c) /\ dragging
        /\ Len(displayData[c]) = 2
        /\ dragTimerRef[c] = 2
        /\ LiveTimers(c) = {dragTimerRef[c]}
        /\ pendingDataRef[c] # Null
        /\ \A k \in Charts \ {c} : dragTimerRef[k] = NoTimer
        /\ brush = [start |-> PctMax, end |-> PctMax]


\* C17: a mounted chart that is Interacting on the timer a drag gave it
\* does not stay so for ever: unless a further drag on it replaces that
\* timer (or the chart is unmounted), the timer's callback eventually runs,
\* after which the chart is Idle, its local dragging flag is cleared, its
\* pending buffer is empty and its displayData is the latest delivered
\* data.
C17_SettleLiveness ==
    \A c \in Charts, h \in TimerIds :
        (mounted[c] /\ draggingRef[c] /\ dragTimerRef[c] = h)
            ~> \/ ~mounted[c]
               \/ dragTimerRef[c] # h
               \/ /\ ~draggingRef[c]
                  /\ pendingDataRef[c] = Null
                  /\ displayData[c] = data[c]

\* A mounted chart is Idle again after its timer ran (it still holds the
\* handle, which is no longer live) and shows a series other than the one
\* its sibling, still Interacting, shows.
C17_Witness ==
    \E c \in Charts :
        /\ mounted[c] /\ ~Interacting(c)
        /\ dragTimerRef[c] # NoTimer /\ LiveTimers(c) = {}
        /\ pendingDataRef[c] = Null
        /\ displayData[c] = data[c] /\ Len(displayData[c]) = MaxLen
        /\ \E k \in Charts \ {c} : Interacting(k) /\ pendingDataRef[k] # Null


\* A drag event, a timer callback or a data delivery of chart c.
EventOn(c) ==
    \/ \E next \in OrderedDrags \cup PartialDrags : handleBrushChange(c, next)
    \/ \E h \in TimerIds : TimerFire(c, h)
    \/ \E d \in Feed : DataArrive(c, d)

\* The step changes something chart k owns: its local dragging flag, its
\* timer (the handle it holds, its live timeouts), its displayData, its
\* pending buffer, its props or its being mounted.
OwnStateChanges(k) ==
    \/ draggingRef'[k] # draggingRef[k]
    \/ dragTimerRef'[k] # dragTimerRef[k]
    \/ LiveTimers(k)' # LiveTimers(k)
    \/ displayData'[k] # displayData[k]
    \/ pendingDataRef'[k] # pendingDataRef[k]
    \/ data'[k] # data[k]
    \/ mounted'[k] # mounted[k]

\* C18: a drag event, timer callback or data delivery of chart c leaves
\* every other chart's local dragging flag, timer, displayData and pending
\* buffer as they were (a step that changes one of them for chart k is not
\* an event of another chart); all that such an event changes outside its
\* chart is the shared viewport and the shared dragging flag.
C18_SiblingIsolation ==
    [][\A c \in Charts : \A k \in Charts \ {c} :
          OwnStateChanges(k) => ~EventOn(c)]_vars

\* One chart is Interacting with a delivery in its pending buffer and a
\* viewport its drag pushed, while its sibling, never dragged, is Idle and
\* shows its own latest data, a series of another length.
C18_Witness ==
    \E c \in Charts : \E k \in Charts \ {c} :
        /\ mounted[c] /\ mounted[k]
        /\ Interacting(c) /\ pendingDataRef[c] # Null
        /\ brush = [start |-> PctMax, end |-> PctMax]
        /\ ~Interacting(k) /\ dragTimerRef[k] = NoTimer
        /\ LiveTimers(k) = {} /\ pendingDataRef[k] = Null
        /\ displayData[k] = data[k]
        /\ Len(displayData[k]) # Len(displayData[c])


\* C19: no update is lost.  In every state in which a mounted chart is Idle
\* (local dragging flag false) and the effects of the latest render have
\* run, its displayData is the series delivered last and its pending buffer
\* is empty, also when the series delivered last is an empty one.
C19_NoUpdateLost ==
    \A c \in Charts :
        committed /\ mounted[c] /\ ~draggingRef[c]
            => /\ displayData[c] = data[c]
               /\ pendingDataRef[c] = Null

\* A mounted chart is Idle after its timer ran (it holds a handle that is no
\* longer live) and shows the empty series that was delivered last, while
\* the other chart shows a series that is not empty.
C19_Witness ==
    \E c \in Charts :
        /\ committed /\ mounted[c] /\ ~Interacting(c)
        /\ dragTimerRef[c] # NoTimer /\ LiveTimers(c) = {}
        /\ data[c] = <<>> /\ displayData[c] = <<>>
        /\ \E k \in Charts \ {c} : mounted[k] /\ Len(displayData[k]) = MaxLen


\* The calls of run() whose fetch has not finished.
InFlight == {id \in DOMAIN upd.runs : ~upd.runs[id].done}

\* C20: checking is true only while a check that was not cancelled is in
\* flight; so once every fetch that was started has finished, checking is
\* false; and info is never written by a cancelled check.
C20_CheckingOnlyInFlight ==
    /\ upd.checking => \E id \in InFlight : ~upd.runs[id].canceled
    /\ InFlight = {} => ~upd.checking
    /\ ~upd.info.canceled

=============================================================================
